---- MODULE Spec2Model ----
(***************************************************************************)
(* Model of the admission and execution pipeline of antbot:                *)
(* src/python/transaction_pipeline.py, class TransactionPipeline, and of   *)
(* the rate-limited, retrying gateway: src/backend/python/api_client.py    *)
(* (RateLimiter, APIClient) and retry_on_error of                          *)
(* src/backend/python/error_handling.py; of the transaction cache of       *)
(* src/backend/python/transaction_pipeline.py; of the pool monitor of      *)
(* src/python/liquidity_monitor.py and the token monitor of                *)
(* src/backend/python/liquidity_monitor.py.                                *)
(*                                                                         *)
(* Request objects live in a heap (requests); the queue, the in-flight     *)
(* table and the result ledger hold references (heap indices), as the      *)
(* Python containers hold object references.  Every coroutine started by   *)
(* asyncio.create_task is a record of tasks with its position (pc).        *)
(***************************************************************************)
EXTENDS Integers, Sequences, FiniteSets, TLC

\* ---------------------------------------------------------------- bounds
MaxSubmit == 3          \* submit_transaction calls in one run
MaxConcurrentMax == 2   \* largest configured max_concurrent explored
TickStep == 24          \* hours the wall clock advances in one Tick
MaxTime == 24           \* the wall clock stops advancing here (hours)
NCallers == 3           \* concurrent APIClient.get / post calls
MaxRetriesMax == 3      \* largest configured max_retries explored
MaxCacheSize == 2       \* max_cache_size of the modelled transaction cache
CacheMaxTime == 3       \* datetime.utcnow() of the cache stops advancing here
MaxAddErrors == 2       \* add_transaction calls that raise in one run
MaxPasses == 2          \* _monitor_pools passes in one run
MaxPools == 3           \* length of the configured list of pools
PoolTickStep == 12      \* hours the pool monitor's clock advances in one tick
PoolMaxTime == 36       \* the pool monitor's clock stops advancing here
LedgerTickStep == 12    \* hours the wall clock advances in one LedgerTick
LedgerMaxTime == 36     \* the wall clock of the ledger runs stops here
TokenMaxTime == 300     \* the token monitor's clock stops advancing here

\* ------------------------------------------------------ program constants
RetentionHours == 24    \* timedelta(hours=24) of _cleanup_old_transactions
NoSig == 0              \* TransactionRequest.signature = None
NoError == "None"       \* TransactionRequest.error = None
NoHash == 0             \* TransactionResult.transaction_hash = None
Second == 2             \* the 1.0 s of min_interval, in clock ticks
NoResponse == 0         \* a call returned None
cache_ttl == 2          \* the 3600 s of cache_ttl, in cache clock ticks
AlertRetentionHours == 24   \* timedelta(hours=24) of _cleanup_old_alerts
SecondsPerHour == 3600
alert_cooldown == 300   \* seconds between two alerts of the token monitor
check_interval == 60    \* seconds between two polls of a token
min_liquidity_threshold == 1000
liquidity_decrease_percent == 10   \* liquidity_decrease_threshold = 0.1
DatetimeMin == -1000000 \* datetime.min: further back than any cooldown

\* ------------------------------------------------------------ input sets
Priorities == {1, 5}
UserSig == 1                         \* a signature the caller filled in
Signatures == {NoSig, UserSig}
Wallets == {"w1"}                    \* self.wallets, loaded at construction
WalletNames == {"w1", "w2"}          \* wallet_address values callers pass
HashBase == 10
TxHash(k) == HashBase + k            \* hash the RPC returns to execution k
AllKeys == Signatures \cup {TxHash(k) : k \in 1..MaxSubmit}

VARIABLES
    requests,                 \* heap of TransactionRequest objects
    pending_transactions,     \* list of [id: reference, n: number of the
                              \* submit_transaction call that queued it]
    processing_transactions,  \* dict: key -> reference
    completed_transactions,   \* list of TransactionResult
    tasks,                    \* coroutines made by create_task, in start order
    is_active,                \* start_processing loop flag
    max_concurrent,           \* config["transaction_pipeline"]["max_concurrent"]
    submits,                  \* number of accepted submissions so far
    rejected,                 \* number of submit_transaction calls that raised
    now                       \* datetime.now(), in hours

\* The gateway (api_client.py, error_handling.py)
VARIABLES
    calls_per_second,         \* RateLimiter(calls_per_second)
    max_retries,              \* config.bot.max_retries
    retry_delay,              \* config.bot.retry_delay, in ticks
    semaphore,                \* permits left in RateLimiter.semaphore
    elapsed,                  \* datetime.now() - RateLimiter.last_call, in
                              \* ticks, counted up to min_interval only
    callers,                  \* the APIClient.get / post calls
    decorator,                \* arguments of retry_on_error
    wrapped                   \* the call of an operation retry_on_error wraps

pvars == <<requests, pending_transactions, processing_transactions,
           completed_transactions, tasks, is_active, max_concurrent,
           submits, rejected, now>>

\* The transaction cache (src/backend/python/transaction_pipeline.py)
VARIABLES
    transaction_cache,        \* dict hash -> Transaction, in insertion order;
                              \* inserted is the utcnow() of the assignment
    processing_tasks,         \* keys of the dict hash -> asyncio.Task
    utcnow,                   \* datetime.utcnow(), in cache clock ticks
    add_errors                \* number of add_transaction calls that raised

\* The pool monitor (src/python/liquidity_monitor.py)
VARIABLES
    pools,                    \* config["monitoring"]["pools"]
    monitored_pools,          \* keys of the dict pool_address -> PoolMetrics
    alert_history,            \* list of LiquidityAlert; pass_no is the number
                              \* of the pass that created the alert
    monitoring,               \* LiquidityMonitor.is_active
    pool_index,               \* position of start_monitoring: 0 not running,
                              \* k awaiting the metrics of the k-th pool,
                              \* Spinning in a loop over an empty list
    fetching,                 \* pool_address of the pending _fetch_pool_metrics
    pass_log,                 \* the pools whose fetch began in this pass, and
                              \* those remove_pool_from_monitor returned for
                              \* during this pass and before it
    passes,                   \* number of completed _monitor_pools passes
    created,                  \* number of alerts created so far
    failed_pools,             \* the pools whose latest analysis raised
    pool_now                  \* datetime.now() of the pool monitor, in hours

\* The token monitor (src/backend/python/liquidity_monitor.py)
VARIABLES
    token_running,            \* LiquidityMonitor._is_running
    token_initialized,        \* LiquidityMonitor._initialized
    monitored_tokens,         \* dict token -> monitoring data
    alert_tasks,              \* dict token -> the _monitor_token task
    token_now,                \* datetime.utcnow() of the token monitor, seconds
    sent                      \* the alerts _send_alert logged in the latest
                              \* poll of a token

gvars == <<calls_per_second, max_retries, retry_delay, semaphore, elapsed,
           callers, decorator, wrapped>>

cvars == <<transaction_cache, processing_tasks, utcnow, add_errors>>

\* the components an action of the pipeline / of the gateway leaves alone
mvars == <<pools, monitored_pools, alert_history, monitoring, pool_index,
           fetching, pass_log, passes, created, failed_pools, pool_now>>

tvars == <<token_running, token_initialized, monitored_tokens, alert_tasks,
           token_now, sent>>

xvars == <<cvars, mvars, tvars>>

vars == <<pvars, gvars, xvars>>

\* ------------------------------------------------------------- helpers
RemoveAt(s, k) == [i \in 1..(Len(s) - 1) |-> IF i < k THEN s[i] ELSE s[i + 1]]

\* dict[key] = value
DictPut(d, key, value) ==
    [x \in (DOMAIN d) \cup {key} |-> IF x = key THEN value ELSE d[x]]

\* if key in dict: del dict[key]
DictDiscard(d, key) == [x \in (DOMAIN d) \ {key} |-> d[x]]

EmptyDict == [x \in {} |-> 0]

PriorityOf(reqs, e) == reqs[e.id].priority
SignatureOf(reqs, e) == reqs[e.id].signature

\* One step of list.sort(key=priority, reverse=True): e, which followed every
\* element of the sorted prefix t in the list, goes behind the elements of t
\* whose priority is at least its own (the sort is stable).
InsertByPriorityUnstable(reqs, t, e) ==
    LET k == Cardinality({i \in DOMAIN t : PriorityOf(reqs, t[i]) > PriorityOf(reqs, e)})
    IN  SubSeq(t, 1, k) \o <<e>> \o SubSeq(t, k + 1, Len(t))

InsertByPriority(reqs, t, e) ==
    LET k == Cardinality({i \in DOMAIN t : PriorityOf(reqs, t[i]) >= PriorityOf(reqs, e)})
    IN  SubSeq(t, 1, k) \o <<e>> \o SubSeq(t, k + 1, Len(t))

RECURSIVE SortByPriority(_, _)
SortByPriority(reqs, s) ==
    IF s = <<>> THEN <<>>
    ELSE InsertByPriority(reqs, SortByPriority(reqs, SubSeq(s, 1, Len(s) - 1)), s[Len(s)])

\* A cleanup that removes nothing
CleanupKeepingAll(ledger, t) == ledger

\* _cleanup_old_transactions
CleanupOldTransactions(ledger, t) ==
    SelectSeq(ledger, LAMBDA tx : tx.timestamp > t - RetentionHours)

\* The while loop of _process_transactions: st = [queue, table, started].
RECURSIVE DispatchLoop(_, _, _)
DispatchLoop(reqs, mc, st) ==
    IF Cardinality(DOMAIN st.table) < mc /\ st.queue # <<>>
    THEN LET transaction == Head(st.queue)
         IN  DispatchLoop(reqs, mc,
                 [queue   |-> Tail(st.queue),
                  table   |-> DictPut(st.table, SignatureOf(reqs, transaction), transaction.id),
                  started |-> Append(st.started, transaction)])
    ELSE st

NewTask(e) == [id |-> e.id, n |-> e.n, pc |-> "build", results |-> 0]

\* ----------------------------------------------------------------- Init
\* TransactionPipeline.__init__
PipelineConstructed ==
    /\ requests = <<>>
    /\ pending_transactions = <<>>
    /\ processing_transactions = EmptyDict
    /\ completed_transactions = <<>>
    /\ tasks = <<>>
    /\ is_active = FALSE
    /\ submits = 0
    /\ rejected = 0
    /\ now = 0

\* A get / post call that has not been made yet.  attempt is the loop
\* variable; attempts counts the requests sent, delays lists the retry
\* delays slept, response / error is the number of the attempt whose
\* response was returned / whose exception was raised to the caller.
IdleCaller ==
    [pc |-> "idle", attempt |-> 0, timer |-> 0, attempts |-> 0,
     delays |-> <<>>, response |-> NoResponse, error |-> 0]

\* A call of the wrapped operation that has not been made yet
IdleWrapped ==
    [pc |-> "idle", attempt |-> 0, current_delay |-> 0, attempts |-> 0,
     delays |-> <<>>, response |-> NoResponse, error |-> 0, last_error |-> 0]

\* RateLimiter.__init__ and the configuration the APIClient reads; dec are the
\* arguments retry_on_error was applied with
GatewayConstructed(cps, retries, delay, dec) ==
    /\ calls_per_second = cps
    /\ max_retries = retries
    /\ retry_delay = delay
    /\ semaphore = cps
    /\ elapsed = 0
    /\ callers = [c \in 1..NCallers |-> IdleCaller]
    /\ decorator = dec
    /\ wrapped = IdleWrapped

\* retry_on_error(max_retries=3, delay=1.0, backoff=2.0)
DecoratorDefaults == [max_retries |-> 3, delay |-> Second, backoff |-> 2]

\* TransactionPipeline.__init__ of the backend
CacheConstructed ==
    /\ transaction_cache = <<>>
    /\ processing_tasks = {}
    /\ utcnow = 0
    /\ add_errors = 0

\* the pools the configuration file lists
ConfiguredPools == <<"p1", "p2">>

NoPool == "none"
EmptyPassLog == [polled |-> <<>>, removed_now |-> {}, removed_before |-> {}]

\* LiquidityMonitor.__init__ of src/python
PoolMonitorConstructed ==
    /\ pools = ConfiguredPools
    /\ monitored_pools = {}
    /\ alert_history = <<>>
    /\ monitoring = FALSE
    /\ pool_index = 0
    /\ fetching = NoPool
    /\ pass_log = EmptyPassLog
    /\ passes = 0
    /\ created = 0
    /\ failed_pools = {}
    /\ pool_now = 0

\* LiquidityMonitor.__init__ of the backend
TokenMonitorConstructed ==
    /\ token_running = FALSE
    /\ token_initialized = FALSE
    /\ monitored_tokens = EmptyDict
    /\ alert_tasks = EmptyDict
    /\ token_now = 0
    /\ sent = <<>>

\* the components outside the pipeline and the gateway, as constructed
OthersConstructed ==
    /\ CacheConstructed
    /\ PoolMonitorConstructed
    /\ TokenMonitorConstructed

Init ==
    /\ PipelineConstructed
    /\ OthersConstructed
    /\ max_concurrent \in 1..MaxConcurrentMax
    /\ GatewayConstructed(1, 1, 1, DecoratorDefaults)

\* -------------------------------------------------------------- actions
\* A submit_transaction without the wallet validation
SubmitNeverRaises(w) == FALSE

\* submit_transaction raises ValueError for a wallet that is not provisioned
SubmitRaises(w) == w \notin Wallets

\* submit_transaction(request) with a newly constructed request object
SubmitNew(p, s, w) ==
    /\ submits + rejected < MaxSubmit
    /\ IF SubmitRaises(w)
       THEN /\ rejected' = rejected + 1
            /\ UNCHANGED <<requests, pending_transactions, submits>>
       ELSE /\ requests' = Append(requests,
                   [priority |-> p, signature |-> s, wallet |-> w,
                    status |-> "pending", error |-> NoError])
            /\ pending_transactions' =
                   Append(pending_transactions, [id |-> Len(requests) + 1, n |-> submits + 1])
            /\ submits' = submits + 1
            /\ UNCHANGED rejected
    /\ UNCHANGED <<processing_transactions, completed_transactions, tasks,
                   is_active, max_concurrent, now>>
    /\ UNCHANGED <<gvars, xvars>>

\* submit_transaction(request) with a request object submitted before
SubmitAgain(r) ==
    /\ submits + rejected < MaxSubmit
    /\ r \in DOMAIN requests
    /\ IF SubmitRaises(requests[r].wallet)
       THEN /\ rejected' = rejected + 1
            /\ UNCHANGED <<pending_transactions, submits>>
       ELSE /\ pending_transactions' =
                   Append(pending_transactions, [id |-> r, n |-> submits + 1])
            /\ submits' = submits + 1
            /\ UNCHANGED rejected
    /\ UNCHANGED <<requests, processing_transactions, completed_transactions, tasks,
                   is_active, max_concurrent, now>>
    /\ UNCHANGED <<gvars, xvars>>

\* start_processing: self.is_active = True (a call while the loop is active
\* changes nothing)
StartProcessing ==
    /\ ~is_active
    /\ is_active' = TRUE
    /\ UNCHANGED <<requests, pending_transactions, processing_transactions,
                   completed_transactions, tasks, max_concurrent, submits,
                   rejected, now>>
    /\ UNCHANGED <<gvars, xvars>>

\* stop_processing: self.is_active = False (a call while the loop is not
\* active changes nothing)
StopProcessing ==
    /\ is_active
    /\ is_active' = FALSE
    /\ UNCHANGED <<requests, pending_transactions, processing_transactions,
                   completed_transactions, tasks, max_concurrent, submits,
                   rejected, now>>
    /\ UNCHANGED <<gvars, xvars>>

\* One iteration of the start_processing loop: a whole _process_transactions
\* pass (it has no suspension point).
ProcessTransactions ==
    /\ is_active
    /\ LET out == DispatchLoop(requests, max_concurrent,
                      [queue   |-> SortByPriority(requests, pending_transactions),
                       table   |-> processing_transactions,
                       started |-> <<>>])
       IN  /\ pending_transactions' = out.queue
           /\ processing_transactions' = out.table
           /\ tasks' = tasks \o [i \in 1..Len(out.started) |-> NewTask(out.started[i])]
    /\ completed_transactions' = CleanupOldTransactions(completed_transactions, now)
    /\ UNCHANGED <<requests, is_active, max_concurrent, submits, rejected, now>>
    /\ UNCHANGED <<gvars, xvars>>

\* ------------------------------------------- _execute_transaction (a task)
\* TransactionResult appended by the try block after a successful send
SuccessResults(i, hash, t) ==
    <<[request |-> tasks[i].id, success |-> TRUE, transaction_hash |-> hash,
       error |-> NoError, timestamp |-> t]>>

FailureResultsDropped(i, e, t) == <<>>

\* TransactionResult appended by the except block
FailureResults(i, e, t) ==
    <<[request |-> tasks[i].id, success |-> FALSE, transaction_hash |-> NoHash,
       error |-> e, timestamp |-> t]>>

\* Key the finally block looks up: the signature the request has by then
FinallyKey(reqs, i) == reqs[tasks[i].id].signature

\* try block after send returned: status, signature, result; then finally
Complete(i) ==
    LET r    == tasks[i].id
        hash == TxHash(i)
        reqs == [requests EXCEPT ![r].status = "completed", ![r].signature = hash]
        out  == SuccessResults(i, hash, now)
    IN  /\ requests' = reqs
        /\ completed_transactions' = completed_transactions \o out
        /\ processing_transactions' =
               DictDiscard(processing_transactions, FinallyKey(reqs, i))
        /\ tasks' = [tasks EXCEPT ![i].pc = "done", ![i].results = @ + Len(out)]

\* An except block that marks every request of the in-flight table failed
FailMarkingAll(i, e) ==
    LET r    == tasks[i].id
        hit  == {r} \cup {processing_transactions[k] : k \in DOMAIN processing_transactions}
        reqs == [x \in DOMAIN requests |->
                    IF x \in hit
                    THEN [requests[x] EXCEPT !.status = "failed", !.error = e]
                    ELSE requests[x]]
        out  == FailureResults(i, e, now)
    IN  /\ requests' = reqs
        /\ completed_transactions' = completed_transactions \o out
        /\ processing_transactions' =
               DictDiscard(processing_transactions, FinallyKey(reqs, i))
        /\ tasks' = [tasks EXCEPT ![i].pc = "done", ![i].results = @ + Len(out)]

\* except block: status, error, result; then finally
Fail(i, e) ==
    LET r    == tasks[i].id
        reqs == [requests EXCEPT ![r].status = "failed", ![r].error = e]
        out  == FailureResults(i, e, now)
    IN  /\ requests' = reqs
        /\ completed_transactions' = completed_transactions \o out
        /\ processing_transactions' =
               DictDiscard(processing_transactions, FinallyKey(reqs, i))
        /\ tasks' = [tasks EXCEPT ![i].pc = "done", ![i].results = @ + Len(out)]

\* A _sign_transaction without the wallet check
SignErrorSkipped(r) == NoError

\* _sign_transaction: ValueError when the wallet is unknown, else the
\* transaction is signed and returned
SignError(r) ==
    IF requests[r].wallet \notin Wallets THEN "wallet" ELSE NoError

TaskFrame ==
    /\ UNCHANGED <<pending_transactions, is_active, max_concurrent, submits,
                   rejected, now>>
    /\ UNCHANGED <<gvars, xvars>>

\* The task runs from its start to the suspension inside send.
\* _build_transaction is a placeholder that raises NotImplementedError until
\* a protocol-specific builder replaces it, which returns a transaction: it
\* returns or raises.  _sign_transaction, which has no suspension point of
\* its own, then returns or raises.
BuildAndSign(i, builds) ==
    /\ i \in DOMAIN tasks
    /\ tasks[i].pc = "build"
    /\ IF ~builds THEN Fail(i, "build")
       ELSE IF SignError(tasks[i].id) # NoError
            THEN Fail(i, SignError(tasks[i].id))
            ELSE /\ tasks' = [tasks EXCEPT ![i].pc = "send"]
                 /\ UNCHANGED <<requests, completed_transactions, processing_transactions>>
    /\ TaskFrame

\* await self._send_transaction(signed_tx): the RPC returns a hash or raises
Send(i, ok) ==
    /\ i \in DOMAIN tasks
    /\ tasks[i].pc = "send"
    /\ IF ok THEN Complete(i) ELSE Fail(i, "send")
    /\ TaskFrame

Step(i) ==
    \/ \E builds \in BOOLEAN : BuildAndSign(i, builds)
    \/ \E ok \in BOOLEAN : Send(i, ok)

\* ------------------------------------------------------ cancel_transaction
\* Positions of the queue whose request carries this signature
PendingMatches(sig) ==
    {k \in DOMAIN pending_transactions :
        SignatureOf(requests, pending_transactions[k]) = sig}

FirstMatch(sig) ==
    CHOOSE k \in PendingMatches(sig) : \A j \in PendingMatches(sig) : k <= j

\* The value cancel_transaction returns
CancelReturn(sig) ==
    PendingMatches(sig) # {} \/ sig \in DOMAIN processing_transactions

CancelTransaction(sig) ==
    /\ IF PendingMatches(sig) # {}
       THEN /\ pending_transactions' = RemoveAt(pending_transactions, FirstMatch(sig))
            /\ UNCHANGED processing_transactions
       ELSE IF sig \in DOMAIN processing_transactions
            THEN /\ processing_transactions' = DictDiscard(processing_transactions, sig)
                 /\ UNCHANGED pending_transactions
            ELSE UNCHANGED <<pending_transactions, processing_transactions>>
    /\ UNCHANGED <<requests, completed_transactions, tasks, is_active,
                   max_concurrent, submits, rejected, now>>
    /\ UNCHANGED <<gvars, xvars>>

\* datetime.now() advances
Tick ==
    /\ now + TickStep <= MaxTime
    /\ now' = now + TickStep
    /\ UNCHANGED <<requests, pending_transactions, processing_transactions,
                   completed_transactions, tasks, is_active, max_concurrent,
                   submits, rejected>>
    /\ UNCHANGED <<gvars, xvars>>

Next ==
    \/ \E p \in Priorities, s \in Signatures, w \in WalletNames : SubmitNew(p, s, w)
    \/ \E r \in 1..MaxSubmit : SubmitAgain(r)
    \/ StartProcessing
    \/ StopProcessing
    \/ ProcessTransactions
    \/ \E i \in 1..MaxSubmit : Step(i)
    \/ \E sig \in AllKeys : CancelTransaction(sig)
    \/ Tick

Spec == Init /\ [][Next]_vars

\* The pipeline when no caller cancels: submissions, dispatch passes and
\* executions only.
NextNoCancel ==
    \/ \E p \in Priorities, s \in Signatures, w \in WalletNames : SubmitNew(p, s, w)
    \/ \E r \in 1..MaxSubmit : SubmitAgain(r)
    \/ StartProcessing
    \/ StopProcessing
    \/ ProcessTransactions
    \/ \E i \in 1..MaxSubmit : Step(i)
    \/ Tick

SpecNoCancel == Init /\ [][NextNoCancel]_vars

\* The pipeline under a fair event loop: every started execution is scheduled
\* again whenever the call it awaits has returned or raised.  Neither the
\* priority of a request nor the wall clock influences an execution, so the
\* requests here have one priority and the clock stands still.
NextFair ==
    \/ \E s \in Signatures : SubmitNew(1, s, "w1")
    \/ \E r \in 1..MaxSubmit : SubmitAgain(r)
    \/ StartProcessing
    \/ StopProcessing
    \/ ProcessTransactions
    \/ \E i \in 1..MaxSubmit : Step(i)
    \/ \E sig \in AllKeys : CancelTransaction(sig)

FairSpec == Init /\ [][NextFair]_vars /\ \A i \in 1..MaxSubmit : WF_vars(Step(i))

\* ------------------------------------------------------------ properties
InFlight == {i \in DOMAIN tasks : tasks[i].pc # "done"}

\* Executions of request r, and the ones among them that appended a result
TasksOf(r) == {i \in DOMAIN tasks : tasks[i].id = r}
Running(r) == TasksOf(r) \cap InFlight # {}

InPending(r) == \E k \in DOMAIN pending_transactions : pending_transactions[k].id = r
InProcessing(r) ==
    \E key \in DOMAIN processing_transactions : processing_transactions[key] = r
InCompleted(r) ==
    \E k \in DOMAIN completed_transactions : completed_transactions[k].request = r

\* Every accepted submission so far was of a request object of its own
NoResubmission == submits = Len(requests)

\* C1: the number of executions that have been started and have not finished
\* never exceeds max_concurrent (checked under SpecNoCancel: submissions,
\* dispatch passes and executions only; stated for runs in which no request
\* object is submitted twice).
C1_InFlightWithinCeiling ==
    NoResubmission => Cardinality(InFlight) <= max_concurrent

\* C4: completed_transactions never receives more than one TransactionResult
\* for the same request, and no execution appends more than one.
C4_OneResultPerRequest ==
    /\ \A i \in DOMAIN tasks : tasks[i].results <= 1
    /\ \A r \in DOMAIN requests :
           Cardinality({i \in TasksOf(r) : tasks[i].results > 0}) <= 1

\* C5: once the execution of a request has finished (completed or failed),
\* the request has no entry in processing_transactions any more.
C5_SlotFreedOnFinish ==
    \A r \in DOMAIN requests :
        (TasksOf(r) # {} /\ ~Running(r)) => ~InProcessing(r)

\* C6: while a request is being executed its status is "processing", and a
\* status of "completed" or "failed" never changes again.
C6_StatusMonotonic ==
    [][ /\ \A i \in DOMAIN tasks' :
              tasks'[i].pc # "done" => requests'[tasks'[i].id].status = "processing"
        /\ \A r \in DOMAIN requests :
              requests[r].status \in {"completed", "failed"}
                  => requests'[r].status = requests[r].status ]_vars

\* C7: every in-flight request has an entry of its own in
\* processing_transactions, so the table has as many entries as there are
\* executions that have not finished (checked under SpecNoCancel; stated for
\* runs in which no request object is submitted twice).
C7_TableCountsInFlight ==
    NoResubmission =>
        Cardinality(DOMAIN processing_transactions) = Cardinality(InFlight)

\* C8: every accepted request is held by at most one of the queue, the
\* in-flight table and the ledger, and by at least one of them while it is
\* being executed (checked under SpecNoCancel, where nothing is cancelled;
\* stated for runs in which no request object is submitted twice).
C8_ExactlyOneOwner ==
    NoResubmission =>
        \A r \in DOMAIN requests :
            /\ ~(InPending(r) /\ InProcessing(r))
            /\ ~(InPending(r) /\ InCompleted(r))
            /\ ~(InProcessing(r) /\ InCompleted(r))
            /\ Running(r) => (InPending(r) \/ InProcessing(r) \/ InCompleted(r))

\* C9: cancel_transaction(id) for a request that is in the queue returns
\* True and removes that request and no other from the queue, whichever
\* queued request the caller means by id (stated for runs in which no
\* request object is submitted twice).
C9_CancelRemovesThatRequest ==
    [][ \A sig \in AllKeys :
            (NoResubmission /\ CancelTransaction(sig)) =>
                \A k \in PendingMatches(sig) :
                    /\ CancelReturn(sig)
                    /\ pending_transactions' = RemoveAt(pending_transactions, k) ]_vars

\* C10: no request is in the queue twice, none is in the queue while it is
\* being executed, and none is being executed twice at the same time.
C10_NoDuplicateAdmission ==
    /\ \A j, k \in DOMAIN pending_transactions :
           j # k => pending_transactions[j].id # pending_transactions[k].id
    /\ \A r \in DOMAIN requests :
           /\ ~(InPending(r) /\ Running(r))
           /\ Cardinality(TasksOf(r) \cap InFlight) <= 1

\* x leaves the queue before y: higher priority, or the same priority and
\* submitted earlier
LeavesBefore(x, y) ==
    \/ PriorityOf(requests, x) > PriorityOf(requests, y)
    \/ PriorityOf(requests, x) = PriorityOf(requests, y) /\ x.n < y.n

\* C2: the requests a dispatch pass pops leave the queue in non-increasing
\* priority order and, among equal priorities, in submission order: each
\* popped request precedes, in that order, every request popped after it in
\* the pass and every request the pass leaves in the queue.
C2_PopOrder ==
    [][ \A i \in (Len(tasks) + 1)..Len(tasks') :
            /\ \A j \in (i + 1)..Len(tasks') : LeavesBefore(tasks'[i], tasks'[j])
            /\ \A k \in DOMAIN pending_transactions' :
                   LeavesBefore(tasks'[i], pending_transactions'[k]) ]_vars

\* Three requests were started: the priority-5 one, submitted second, first,
\* then the two priority-1 ones in the order of their submission.
C2_Witness ==
    /\ Len(tasks) = 3
    /\ <<tasks[1].n, tasks[2].n, tasks[3].n>> = <<2, 1, 3>>
    /\ PriorityOf(requests, tasks[1]) = 5
    /\ PriorityOf(requests, tasks[2]) = 1
    /\ PriorityOf(requests, tasks[3]) = 1

ScenarioPriorities == <<1, 5, 1>>

\* One dispatcher slot; the three requests are submitted, start_processing is
\* called after the third submission, then passes and executions run.
InitScenario ==
    /\ PipelineConstructed
    /\ OthersConstructed
    /\ max_concurrent = 1
    /\ GatewayConstructed(1, 1, 1, DecoratorDefaults)

NextScenario ==
    \/ \E s \in Signatures :
           /\ submits < Len(ScenarioPriorities)
           /\ SubmitNew(ScenarioPriorities[submits + 1], s, "w1")
    \/ submits = Len(ScenarioPriorities) /\ StartProcessing
    \/ ProcessTransactions
    \/ \E i \in 1..MaxSubmit : Step(i)
    \/ Tick

SpecScenario == InitScenario /\ [][NextScenario]_vars

\* Submission numbers of the started executions, in start order
StartOrder == [i \in DOMAIN tasks |-> tasks[i].n]

IsPrefix(s, t) == Len(s) <= Len(t) /\ s = SubSeq(t, 1, Len(s))

\* The requests the next dispatch pass would start in the present state
NextPassStarts ==
    DispatchLoop(requests, max_concurrent,
        [queue   |-> SortByPriority(requests, pending_transactions),
         table   |-> processing_transactions,
         started |-> <<>>]).started

\* C11: in the scenario (max_concurrent = 1, priorities 1, 5, 1 submitted
\* before dispatching begins) the executions start in the order second,
\* first, third submission, and all three are started: while fewer than
\* three have been started and no execution is running, the next dispatch
\* pass starts one.
C11_ScenarioStartsAllInOrder ==
    /\ IsPrefix(StartOrder, <<2, 1, 3>>)
    /\ (is_active /\ Len(tasks) < 3 /\ InFlight = {}) => NextPassStarts # <<>>

\* ------------------------------------------------- failure containment
\* This step is the except path of execution i
FailedStep(i) ==
    /\ i \in DOMAIN tasks
    /\ tasks[i].pc # "done"
    /\ tasks'[i].pc = "done"
    /\ requests'[tasks[i].id].status = "failed"

ChangeWallet(r, w) ==
    /\ r \in DOMAIN requests
    /\ requests[r].wallet # w
    /\ requests' = [requests EXCEPT ![r].wallet = w]
    /\ UNCHANGED <<pending_transactions, processing_transactions,
                   completed_transactions, tasks, is_active, max_concurrent,
                   submits, rejected, now>>
    /\ UNCHANGED <<gvars, xvars>>

\* Submissions, changes of a submitted request by its caller, dispatch
\* passes and executions.
NextExec ==
    \/ \E p \in Priorities, s \in Signatures, w \in WalletNames : SubmitNew(p, s, w)
    \/ \E r \in 1..MaxSubmit, w \in WalletNames : ChangeWallet(r, w)
    \/ StartProcessing
    \/ ProcessTransactions
    \/ \E i \in 1..MaxSubmit : Step(i)

SpecExec == Init /\ [][NextExec]_vars

LastResult(ledger) == ledger[Len(ledger)]

\* After the step the request of execution i is failed with error text e,
\* and the step appended a result without success and without hash
FailedOutcome(i, e) ==
    /\ e # NoError
    /\ tasks'[i].pc = "done"
    /\ requests'[tasks[i].id].status = "failed"
    /\ requests'[tasks[i].id].error = e
    /\ Len(completed_transactions') = Len(completed_transactions) + 1
    /\ LastResult(completed_transactions').request = tasks[i].id
    /\ LastResult(completed_transactions').success = FALSE
    /\ LastResult(completed_transactions').transaction_hash = NoHash
    /\ LastResult(completed_transactions').error = e

\* After the step the request of execution i is completed, and the step
\* appended a result with success and the hash send returned
CompletedOutcome(i) ==
    /\ tasks'[i].pc = "done"
    /\ requests'[tasks[i].id].status = "completed"
    /\ Len(completed_transactions') = Len(completed_transactions) + 1
    /\ LastResult(completed_transactions').request = tasks[i].id
    /\ LastResult(completed_transactions').success = TRUE
    /\ LastResult(completed_transactions').transaction_hash = TxHash(i)
    /\ LastResult(completed_transactions').transaction_hash # NoHash
    /\ LastResult(completed_transactions').error = NoError

\* C13: an execution whose build raises, whose signing raises (the wallet
\* of the request is not provisioned when it is signed) or whose send raises
\* ends with the request failed, the error text recorded and a result with
\* success = false and no hash; an execution whose build, signing and send
\* all return ends with the request completed and a result with
\* success = true and the returned hash; until then nothing is recorded.
C13_OutcomeRecorded ==
    [][ \A i \in 1..MaxSubmit :
            /\ BuildAndSign(i, FALSE) => FailedOutcome(i, "build")
            /\ (BuildAndSign(i, TRUE) /\ requests[tasks[i].id].wallet \notin Wallets)
                   => FailedOutcome(i, "wallet")
            /\ (BuildAndSign(i, TRUE) /\ requests[tasks[i].id].wallet \in Wallets)
                   => /\ tasks'[i].pc = "send"
                      /\ requests' = requests
                      /\ completed_transactions' = completed_transactions
            /\ Send(i, FALSE) => FailedOutcome(i, "send")
            /\ Send(i, TRUE) => CompletedOutcome(i)
      ]_vars

\* One request failed at signing because its wallet was no longer
\* provisioned, one failed at send and one completed; each has its result.
C13_Witness ==
    \E a, b, c \in DOMAIN completed_transactions :
        /\ completed_transactions[a].error = "wallet"
        /\ ~completed_transactions[a].success
        /\ requests[completed_transactions[a].request].status = "failed"
        /\ requests[completed_transactions[a].request].error = "wallet"
        /\ completed_transactions[b].error = "send"
        /\ requests[completed_transactions[b].request].status = "failed"
        /\ completed_transactions[c].success
        /\ completed_transactions[c].transaction_hash # NoHash
        /\ requests[completed_transactions[c].request].status = "completed"

\* --------------------------------------------------- rejected submissions
\* C14: submit_transaction with a wallet_address that is not provisioned
\* raises and leaves pending_transactions, processing_transactions and
\* completed_transactions as they were; no queued request and no started
\* execution ever has a wallet that is not provisioned.
C14_RejectedSubmitChangesNothing ==
    [][ /\ \A p \in Priorities, s \in Signatures, w \in WalletNames \ Wallets :
               SubmitNew(p, s, w) => rejected' = rejected + 1
        /\ rejected' # rejected =>
               /\ pending_transactions' = pending_transactions
               /\ processing_transactions' = processing_transactions
               /\ completed_transactions' = completed_transactions
               /\ tasks' = tasks
        /\ \A k \in DOMAIN pending_transactions' :
               requests'[pending_transactions'[k].id].wallet \in Wallets
        /\ \A i \in DOMAIN tasks' : requests'[tasks'[i].id].wallet \in Wallets
      ]_vars

\* A submission was rejected in a run in which the queue, the in-flight
\* table and the ledger all hold something.
C14_Witness ==
    /\ rejected > 0
    /\ pending_transactions # <<>>
    /\ DOMAIN processing_transactions # {}
    /\ completed_transactions # <<>>

\* ====================================================== the gateway
\* Configurations explored
CallsPerSecondValues == {1, 2}
RetryDelays == {1, 2}
Backoffs == {2, 3}

\* self.min_interval = 1.0 / calls_per_second
MinInterval == Second \div calls_per_second

Min(a, b) == IF a < b THEN a ELSE b

\* A semaphore that never blocks
CanAcquireAlways(sem) == TRUE

\* asyncio.Semaphore.acquire returns only when a permit is left
CanAcquire(sem) == sem > 0

\* A release that gives nothing back
ReleaseNothing(sem) == sem

\* RateLimiter.release: self.semaphore.release()
Release(sem) == sem + 1

\* The last iteration of a retry loop that stops one iteration too late
LastAttemptLate(attempt, retries) == ~(attempt < retries)

\* "if attempt < max_retries - 1: sleep ... else: raise"
LastAttempt(attempt, retries) == ~(attempt < retries - 1)

GatewayFrame ==
    /\ UNCHANGED <<calls_per_second, max_retries, retry_delay, decorator>>
    /\ UNCHANGED <<pvars, xvars>>

\* ------------------------------------------------- APIClient.get / post
\* The call begins: the for loop of line 57 is entered, or, with
\* range(max_retries) empty, the function falls off its end and returns None.
Call(c) ==
    /\ callers[c].pc = "idle"
    /\ callers' = [callers EXCEPT ![c].pc =
                       IF max_retries > 0 THEN "acquire" ELSE "returned"]
    /\ UNCHANGED <<semaphore, elapsed, wrapped>>
    /\ GatewayFrame

\* RateLimiter.acquire from the moment the semaphore gives a permit: the
\* caller sleeps for what is left of min_interval, or is admitted at once
\* (self.last_call = now) and sends its request.
Acquire(c) ==
    /\ callers[c].pc = "acquire"
    /\ CanAcquire(semaphore)
    /\ semaphore' = semaphore - 1
    /\ IF elapsed < MinInterval
       THEN /\ callers' = [callers EXCEPT ![c].pc = "spacing",
                                          ![c].timer = MinInterval - elapsed]
            /\ UNCHANGED elapsed
       ELSE /\ callers' = [callers EXCEPT ![c].pc = "request",
                                          ![c].attempts = @ + 1]
            /\ elapsed' = 0
    /\ UNCHANGED wrapped
    /\ GatewayFrame

\* The sleep of line 28 is over: self.last_call = now, acquire returns
SpacingWake(c) ==
    /\ callers[c].pc = "spacing"
    /\ callers[c].timer = 0
    /\ callers' = [callers EXCEPT ![c].pc = "request", ![c].attempts = @ + 1]
    /\ elapsed' = 0
    /\ UNCHANGED <<semaphore, wrapped>>
    /\ GatewayFrame

\* The request returns a response (return, then finally) or raises (except:
\* sleep retry_delay before the finally, or re-raise, then finally)
Respond(c, ok) ==
    /\ callers[c].pc = "request"
    /\ IF ok
       THEN /\ callers' = [callers EXCEPT ![c].pc = "returned",
                                          ![c].response = callers[c].attempt + 1]
            /\ semaphore' = Release(semaphore)
       ELSE IF LastAttempt(callers[c].attempt, max_retries)
            THEN /\ callers' = [callers EXCEPT ![c].pc = "raised",
                                               ![c].error = callers[c].attempt + 1]
                 /\ semaphore' = Release(semaphore)
            ELSE /\ callers' = [callers EXCEPT ![c].pc = "backoff",
                                               ![c].timer = retry_delay,
                                               ![c].delays = Append(@, retry_delay)]
                 /\ UNCHANGED semaphore
    /\ UNCHANGED <<elapsed, wrapped>>
    /\ GatewayFrame

\* A retry sleep that keeps the permit when it ends
BackoffWakeKeeping(c) ==
    /\ callers[c].pc = "backoff"
    /\ callers[c].timer = 0
    /\ callers' = [callers EXCEPT ![c].pc = "acquire", ![c].attempt = @ + 1]
    /\ UNCHANGED <<semaphore, elapsed, wrapped>>
    /\ GatewayFrame

\* The sleep of line 70 is over: finally releases the permit, and the loop
\* goes to its next iteration or, when range(max_retries) is used up, ends
\* (the function then returns None)
BackoffWake(c) ==
    /\ callers[c].pc = "backoff"
    /\ callers[c].timer = 0
    /\ semaphore' = Release(semaphore)
    /\ callers' = [callers EXCEPT
                       ![c].pc = IF callers[c].attempt + 1 < max_retries
                                 THEN "acquire" ELSE "returned",
                       ![c].attempt = @ + 1]
    /\ UNCHANGED <<elapsed, wrapped>>
    /\ GatewayFrame

\* One clock tick passes for the rate limiter and for every sleeper
GatewayTick ==
    /\ elapsed < MinInterval \/ \E c \in 1..NCallers : callers[c].timer > 0
    /\ elapsed' = Min(elapsed + 1, MinInterval)
    /\ callers' = [c \in 1..NCallers |->
                       [callers[c] EXCEPT !.timer = IF @ > 0 THEN @ - 1 ELSE 0]]
    /\ UNCHANGED <<semaphore, wrapped>>
    /\ GatewayFrame

\* ---------------------------------------------------------- retry_on_error
WrappedFrame ==
    /\ UNCHANGED <<semaphore, elapsed, callers>>
    /\ GatewayFrame

\* The wrapper is called: current_delay = delay; the for loop is entered,
\* or, with range(max_retries) empty, the wrapper returns None
WrappedCall ==
    /\ wrapped.pc = "idle"
    /\ wrapped' = [wrapped EXCEPT
                       !.pc = IF decorator.max_retries > 0 THEN "call" ELSE "returned",
                       !.current_delay = decorator.delay]
    /\ WrappedFrame

\* Outcomes of one call of the wrapped operation: it returns, raises one of
\* APIError, ConnectionError, TimeoutError, or raises another exception
Outcomes == {"ok", "retryable", "fatal"}

\* One attempt: func returns (the wrapper returns its value), raises an
\* error the except clause names (sleep, or re-raise on the last attempt),
\* or raises another exception, which leaves the wrapper at once
WrappedAttempt(outcome) ==
    /\ wrapped.pc = "call"
    /\ LET k == wrapped.attempts + 1
       IN  wrapped' =
             IF outcome = "ok"
             THEN [wrapped EXCEPT !.pc = "returned", !.attempts = k, !.response = k]
             ELSE IF outcome = "fatal"
             THEN [wrapped EXCEPT !.pc = "raised", !.attempts = k, !.error = k]
             ELSE IF LastAttempt(wrapped.attempt, decorator.max_retries)
             THEN [wrapped EXCEPT !.pc = "raised", !.attempts = k,
                                  !.last_error = k, !.error = k]
             ELSE [wrapped EXCEPT !.pc = "sleep", !.attempts = k,
                                  !.last_error = k,
                                  !.delays = Append(@, wrapped.current_delay)]
    /\ WrappedFrame

\* The sleep is over: current_delay *= backoff, next iteration (or the end
\* of the loop, after which the wrapper returns None)
WrappedWake ==
    /\ wrapped.pc = "sleep"
    /\ wrapped' = [wrapped EXCEPT
                       !.pc = IF wrapped.attempt + 1 < decorator.max_retries
                              THEN "call" ELSE "returned",
                       !.attempt = @ + 1,
                       !.current_delay = @ * decorator.backoff]
    /\ WrappedFrame

\* ------------------------------------------------ gateway specifications
\* Concurrent get / post calls on one APIClient (batch_get / batch_post
\* gather such calls)
InitGateway ==
    /\ PipelineConstructed
    /\ OthersConstructed
    /\ max_concurrent = 1
    /\ \E cps \in CallsPerSecondValues, retries \in 1..2 :
           GatewayConstructed(cps, retries, 1, DecoratorDefaults)

NextGateway ==
    \/ \E c \in 1..NCallers : Call(c)
    \/ \E c \in 1..NCallers : Acquire(c)
    \/ \E c \in 1..NCallers : SpacingWake(c)
    \/ \E c \in 1..NCallers, ok \in BOOLEAN : Respond(c, ok)
    \/ \E c \in 1..NCallers : BackoffWake(c)
    \/ GatewayTick

SpecGateway == InitGateway /\ [][NextGateway]_vars

\* One get / post call and one call of a wrapped operation, under every
\* retry configuration
InitRetry ==
    /\ PipelineConstructed
    /\ OthersConstructed
    /\ max_concurrent = 1
    /\ \E retries \in 0..MaxRetriesMax, delay \in RetryDelays,
          wretries \in 0..MaxRetriesMax, wdelay \in RetryDelays, backoff \in Backoffs :
           GatewayConstructed(2, retries, delay,
               [max_retries |-> wretries, delay |-> wdelay, backoff |-> backoff])

NextRetry ==
    \/ Call(1)
    \/ Acquire(1)
    \/ SpacingWake(1)
    \/ \E ok \in BOOLEAN : Respond(1, ok)
    \/ BackoffWake(1)
    \/ GatewayTick
    \/ WrappedCall
    \/ \E outcome \in Outcomes : WrappedAttempt(outcome)
    \/ WrappedWake

SpecRetry == InitRetry /\ [][NextRetry]_vars

\* --------------------------------------------------------- retry budget
Ended(call) == call.pc \in {"returned", "raised"}

\* The call ended although none of its attempts returned
AllAttemptsFailed(call) ==
    Ended(call) /\ call.attempts >= 1 /\ call.response = NoResponse

\* Such a call made exactly retries attempts and raised the error of the
\* last one
ExhaustedAndRaised(call, retries) ==
    /\ call.pc = "raised"
    /\ call.attempts = retries
    /\ call.error = call.attempts

\* A call that returned a response made as many attempts as the number of
\* the attempt that returned it, and no call makes more than retries
SuccessStops(call, retries) ==
    /\ call.attempts <= retries
    /\ call.response # NoResponse =>
           call.pc = "returned" /\ call.attempts = call.response

EndedByOtherException(call) == call.pc = "raised" /\ call.error # call.last_error

Geometric(delays, base, factor) ==
    \A k \in DOMAIN delays :
        delays[k] = IF k = 1 THEN base ELSE delays[k - 1] * factor

\* C16: the delays one gateway call sleeps between its failed attempts are
\* the base delay before the second attempt, base x factor before the
\* third, and so on, factor being the configured backoff factor: the
\* backoff argument for a call wrapped by retry_on_error, one of the
\* configurable factors for get / post.
C16_DelayGrowsByBackoff ==
    /\ Geometric(wrapped.delays, decorator.delay, decorator.backoff)
    /\ \E factor \in Backoffs : Geometric(callers[1].delays, retry_delay, factor)

\* ------------------------------------------------------- rate limiter
\* This step admits caller c: its acquire returns
Admitted(c) == callers[c].pc # "request" /\ callers'[c].pc = "request"

\* Some call has been admitted before
SomeAdmitted == \E c \in 1..NCallers : callers[c].attempts >= 1

\* C17: any two calls RateLimiter.acquire admits are at least min_interval
\* apart: when a call is admitted after another one, at least min_interval
\* has passed since the latest admission (elapsed is the time since
\* last_call, which every admission sets).
C17_AdmissionsSpaced ==
    [][ \A c \in 1..NCallers :
            (Admitted(c) /\ SomeAdmitted) => elapsed >= MinInterval ]_vars

\* Callers that hold a permit: semaphore.acquire has returned to them and
\* their finally block has not run yet
Holders == {c \in 1..NCallers : callers[c].pc \in {"spacing", "request", "backoff"}}

\* Callers whose outbound request is in progress: acquire has returned and
\* the matching release has not happened yet
InProgress == {c \in 1..NCallers : callers[c].pc \in {"request", "backoff"}}

\* C18: at no time are more than calls_per_second outbound requests in
\* progress, however many get / post calls run concurrently.
C18_InProgressWithinPermits == Cardinality(InProgress) <= calls_per_second

\* With two permits, two requests are in progress and a third caller waits
\* in acquire.
C18_Witness ==
    /\ calls_per_second = 2
    /\ Cardinality(InProgress) = 2
    /\ \E c \in 1..NCallers : callers[c].pc = "acquire"

\* C19: every permit taken is given back exactly once and none is given
\* back that was not taken: the permits left in the semaphore and the
\* permits held by callers always add up to calls_per_second, and a call
\* that has returned or raised holds none.
C19_PermitsConserved ==
    /\ semaphore + Cardinality(Holders) = calls_per_second
    /\ semaphore >= 0

\* One call has raised after its last attempt, one has returned a
\* response, one is retrying after a failure, and every permit that is not
\* held is back in the semaphore.
C19_Witness ==
    /\ \E c \in 1..NCallers : callers[c].pc = "raised" /\ callers[c].attempts = 2
    /\ \E c \in 1..NCallers : callers[c].pc = "returned"
    /\ \E c \in 1..NCallers : callers[c].pc = "request" /\ callers[c].attempt = 1
    /\ semaphore = calls_per_second - 1

\* The gateway under a fair event loop and a clock that keeps running:
\* a caller that can go on is scheduled, every sleep ends, and every request
\* eventually returns or raises.
FairGateway ==
    /\ InitGateway
    /\ [][NextGateway]_vars
    /\ WF_vars(GatewayTick)
    /\ \A c \in 1..NCallers :
           /\ WF_vars(Acquire(c))
           /\ WF_vars(SpacingWake(c))
           /\ WF_vars(\E ok \in BOOLEAN : Respond(c, ok))
           /\ WF_vars(BackoffWake(c))

\* C20: every caller blocked in acquire eventually obtains a permit, and
\* every permit a caller holds, the one of a failed attempt included, is
\* eventually released.
C20_PermitEventuallyObtained ==
    \A c \in 1..NCallers :
        /\ (callers[c].pc = "acquire") ~> (c \in Holders)
        /\ (c \in Holders) ~> (c \notin Holders)

\* No permit is left: one caller waits in acquire while another one, whose
\* attempt failed, sleeps out its retry delay holding the only permit.
C20_Witness ==
    /\ semaphore = 0
    /\ \E c, d \in 1..NCallers :
           /\ callers[c].pc = "acquire"
           /\ callers[d].pc = "backoff"

\* ======================================================================
\* The transaction cache of the backend
\* (src/backend/python/transaction_pipeline.py, class TransactionPipeline)
\* ======================================================================

\* ------------------------------------------------------------ input sets
Hashes == {1, 2, 3}                  \* transaction hashes callers pass
BadHash == 0                         \* a hash that is not 88 base58 characters
Malformed == -1                      \* a timestamp string that does not parse
RequiredFields ==
    {"hash", "from_address", "to_address", "value", "token_address",
     "timestamp", "gas_price", "gas_used", "status"}

\* self.STATUSES.values()
STATUSES == {"pending", "completed", "failed"}

\* An address is known by its length and by whether it is base58 only.
GoodAddress == [len |-> 44, base58 |-> TRUE]
BadAddresses ==
    {[len |-> 31, base58 |-> TRUE], [len |-> 45, base58 |-> TRUE],
     [len |-> 32, base58 |-> FALSE]}

\* transaction_data that passes the validation: hash h, ISO timestamp of t
ValidData(h, t) ==
    [fields        |-> RequiredFields,
     hash          |-> h,
     from_address  |-> GoodAddress,
     to_address    |-> [len |-> 32, base58 |-> TRUE],
     token_address |-> GoodAddress,
     value         |-> [type |-> "float", v |-> 1],
     gas_price     |-> [type |-> "int", v |-> 1],
     gas_used      |-> [type |-> "int", v |-> 1],
     timestamp     |-> [type |-> "str", iso |-> t],
     status        |-> "pending"]

\* transaction_data that differs from d in one respect
Variants(d) ==
    {[d EXCEPT !.fields = RequiredFields \ {f}] : f \in RequiredFields}
    \cup {[d EXCEPT !.value = x] :
            x \in {[type |-> "str", v |-> 1], [type |-> "int", v |-> 0],
                   [type |-> "float", v |-> -1]}}
    \cup {[d EXCEPT !.gas_price = x] :
            x \in {[type |-> "str", v |-> 1], [type |-> "float", v |-> 0],
                   [type |-> "int", v |-> -1]}}
    \cup {[d EXCEPT !.gas_used = x] :
            x \in {[type |-> "float", v |-> 1], [type |-> "int", v |-> 0],
                   [type |-> "int", v |-> -1]}}
    \cup {[d EXCEPT !.timestamp = x] :
            x \in {[type |-> "int", iso |-> 0], [type |-> "str", iso |-> Malformed]}}
    \cup {[d EXCEPT !.status = x] : x \in (STATUSES \cup {"unknown"})}
    \cup {[d EXCEPT !.from_address = a] : a \in BadAddresses}
    \cup {[d EXCEPT !.to_address = a] : a \in BadAddresses}
    \cup {[d EXCEPT !.token_address = a] : a \in BadAddresses}

\* what callers pass: valid data of every hash and timestamp, and every
\* variant of one of them
TransactionData ==
    {ValidData(h, t) : h \in Hashes, t \in 0..CacheMaxTime}
    \cup Variants(ValidData(1, 0))

\* ------------------------------------------------------------ validation
\* _validate_address: a string of 32 to 44 base58 characters
ValidateAddress(a) == a.len >= 32 /\ a.len <= 44 /\ a.base58

\* _validate_transaction_hash: a string of 88 base58 characters
ValidateTransactionHash(h) == h # BadHash

\* A validation that accepts everything
ValidateNothing(data) == TRUE

\* _validate_transaction_data
ValidateTransactionData(data) ==
    /\ RequiredFields \subseteq data.fields
    /\ data.value.type \in {"int", "float"} /\ data.value.v > 0
    /\ data.gas_price.type \in {"int", "float"} /\ data.gas_price.v > 0
    /\ data.gas_used.type = "int" /\ data.gas_used.v > 0
    /\ data.timestamp.type = "str"
    /\ data.status \in STATUSES
    /\ ValidateAddress(data.from_address)
    /\ ValidateAddress(data.to_address)
    /\ ValidateAddress(data.token_address)

\* datetime.fromisoformat raises ValueError for a string it cannot parse
FromIsoFormatRaises(ts) == ts.iso = Malformed

\* datetime.fromisoformat(transaction_data['timestamp'])
FromIsoFormat(ts) == ts.iso

\* Transaction(...) of add_transaction, with the time of its insertion
NewTransaction(data, t) ==
    [hash |-> data.hash, timestamp |-> FromIsoFormat(data.timestamp),
     inserted |-> t]

\* ------------------------------------------------------------- the cache
CachedHashes(cache) == {cache[i].hash : i \in DOMAIN cache}

\* min(self.transaction_cache.items(), key=lambda x: x[1].timestamp): the
\* first entry, in dict order, whose timestamp is the smallest
OldestIndex(cache) ==
    CHOOSE i \in DOMAIN cache :
        \A j \in DOMAIN cache :
            \/ cache[i].timestamp < cache[j].timestamp
            \/ cache[i].timestamp = cache[j].timestamp /\ i <= j

\* self.transaction_cache[transaction.hash] = transaction
CachePut(cache, tx) ==
    IF tx.hash \in CachedHashes(cache)
    THEN [i \in DOMAIN cache |-> IF cache[i].hash = tx.hash THEN tx ELSE cache[i]]
    ELSE Append(cache, tx)

\* An _add_to_cache that never evicts
AddToCacheKeepingAll(cache, tx) == CachePut(cache, tx)

\* _add_to_cache
AddToCache(cache, tx) ==
    IF Len(cache) >= MaxCacheSize
    THEN CachePut(RemoveAt(cache, OldestIndex(cache)), tx)
    ELSE CachePut(cache, tx)

\* _is_cache_valid
IsCacheValid(tx, t) == t - tx.timestamp <= cache_ttl

None == [hash |-> BadHash]
BotErrorRaised == [hash |-> BadHash, raised |-> "BotError"]

\* get_transaction: the Transaction returned, None, or the BotError raised
GetTransaction(cache, h, t) ==
    IF ~ValidateTransactionHash(h) THEN BotErrorRaised
    ELSE IF h \in CachedHashes(cache)
              /\ IsCacheValid(cache[CHOOSE i \in DOMAIN cache : cache[i].hash = h], t)
         THEN cache[CHOOSE i \in DOMAIN cache : cache[i].hash = h]
         ELSE None

\* --------------------------------------------------------------- actions
CacheFrame == UNCHANGED <<pvars, gvars, mvars, tvars>>

\* add_transaction(transaction_data).  Whatever is raised inside the try
\* block (the ValidationError of line 106, the ValueError of fromisoformat)
\* leaves as a BotError; a Transaction that was built is cached and, unless
\* its hash has a task already, a processing task is created for it.
AddTransaction(data) ==
    /\ IF ~ValidateTransactionData(data) \/ FromIsoFormatRaises(data.timestamp)
       THEN /\ add_errors < MaxAddErrors
            /\ add_errors' = add_errors + 1
            /\ UNCHANGED <<transaction_cache, processing_tasks>>
       ELSE /\ transaction_cache' =
                   AddToCache(transaction_cache, NewTransaction(data, utcnow))
            /\ processing_tasks' = processing_tasks \cup {data.hash}
            /\ UNCHANGED add_errors
    /\ UNCHANGED utcnow
    /\ CacheFrame

\* The clock of the cache advances by one tick
CacheTick ==
    /\ utcnow < CacheMaxTime
    /\ utcnow' = utcnow + 1
    /\ UNCHANGED <<transaction_cache, processing_tasks, add_errors>>
    /\ CacheFrame

\* every component as constructed, the pipeline with one execution slot
InitComponents ==
    /\ PipelineConstructed
    /\ OthersConstructed
    /\ max_concurrent = 1
    /\ GatewayConstructed(1, 1, 1, DecoratorDefaults)

NextCache ==
    \/ \E data \in TransactionData : AddTransaction(data)
    \/ CacheTick

SpecCache == InitComponents /\ [][NextCache]_vars

\* C21: the cache never holds more than max_cache_size entries.
C21_CacheWithinCapacity == Len(transaction_cache) <= MaxCacheSize

\* The cache is full and a hash that was added is no longer cached: an
\* insertion has evicted an entry.
C21_Witness ==
    /\ Len(transaction_cache) = MaxCacheSize
    /\ processing_tasks \ CachedHashes(transaction_cache) # {}

\* The entry of hash h in the cache
Entry(cache, h) == cache[CHOOSE i \in DOMAIN cache : cache[i].hash = h]

\* C22: when add_transaction inserts a new hash into a full cache, exactly
\* one entry is evicted, an entry no other entry was inserted before, and
\* every other entry and the new one remain.
C22_EvictsEarliestInserted ==
    [][(/\ Len(transaction_cache) = MaxCacheSize
        /\ CachedHashes(transaction_cache') \ CachedHashes(transaction_cache) # {})
       => \E i \in DOMAIN transaction_cache :
              /\ \A j \in DOMAIN transaction_cache :
                     transaction_cache[i].inserted <= transaction_cache[j].inserted
              /\ transaction_cache' =
                     Append(RemoveAt(transaction_cache, i),
                            transaction_cache'[Len(transaction_cache')])]_vars

\* C23: get_transaction returns the cached transaction if and only if the
\* hash is cached and at most cache_ttl has passed since the entry was
\* inserted; otherwise it returns None.
C23_ValidSinceInsertion ==
    \A h \in Hashes :
        GetTransaction(transaction_cache, h, utcnow) =
            IF /\ h \in CachedHashes(transaction_cache)
               /\ utcnow - Entry(transaction_cache, h).inserted <= cache_ttl
            THEN Entry(transaction_cache, h)
            ELSE None

\* transaction_data that lacks a required field, has a value, gas_price or
\* gas_used that is not positive, an unknown status or a malformed address
FailsValidation(data) ==
    \/ ~(RequiredFields \subseteq data.fields)
    \/ data.value.v <= 0
    \/ data.gas_price.v <= 0
    \/ data.gas_used.v <= 0
    \/ data.status \notin STATUSES
    \/ \E a \in {data.from_address, data.to_address, data.token_address} :
           a \in BadAddresses

\* C30: add_transaction with data that fails validation raises, adds nothing
\* to transaction_cache and starts no processing task.
C30_InvalidDataRejected ==
    [][\A data \in TransactionData :
           (FailsValidation(data) /\ AddTransaction(data))
           => /\ add_errors' = add_errors + 1
              /\ transaction_cache' = transaction_cache
              /\ processing_tasks' = processing_tasks]_vars

\* A call has raised while the cache holds an entry and a task exists.
C30_Witness ==
    /\ add_errors > 0
    /\ transaction_cache # <<>>
    /\ processing_tasks # {}

\* ======================================================================
\* The pool monitor (src/python/liquidity_monitor.py, class LiquidityMonitor)
\* ======================================================================

\* config["monitoring"]: the floor and the two relative thresholds (percent)
min_liquidity == 10
liquidity_drop_threshold == 10
liquidity_surge_threshold == 10

\* What awaiting _fetch_pool_metrics and _analyze_pool_metrics can bring:
\* no metrics (None), or metrics whose analysis runs through (raise_at = 0)
\* or raises while it evaluates its first, second or third condition.
NoMetrics == [kind |-> "none"]
PoolMetrics ==
    [kind : {"metrics"}, liquidity : {5, 20}, liquidity_change_24h : {-20, 0, 20},
     raise_at : 0..3]
FetchOutcomes == {NoMetrics} \cup PoolMetrics

\* _create_alert: LiquidityAlert(..., timestamp=datetime.now())
CreateAlert(pool, alert_type, t, pass_no) ==
    [pool_address |-> pool, alert_type |-> alert_type, timestamp |-> t,
     pass_no |-> pass_no]

\* The condition that guards the k-th alert of _analyze_pool_metrics
AlertCondition(metrics, k) ==
    CASE k = 1 -> metrics.liquidity < min_liquidity
      [] k = 2 -> metrics.liquidity_change_24h < -liquidity_drop_threshold
      [] k = 3 -> metrics.liquidity_change_24h > liquidity_surge_threshold

AlertTypes == <<"low_liquidity", "liquidity_drop", "liquidity_surge">>

\* The alerts _analyze_pool_metrics creates: the three "if" statements are
\* evaluated one after the other, up to the one that raises
RECURSIVE AnalyzePoolMetrics(_, _, _, _, _)
AnalyzePoolMetrics(pool, metrics, t, pass_no, k) ==
    IF k > 3 \/ metrics.raise_at = k THEN <<>>
    ELSE (IF AlertCondition(metrics, k)
          THEN <<CreateAlert(pool, AlertTypes[k], t, pass_no)>>
          ELSE <<>>)
         \o AnalyzePoolMetrics(pool, metrics, t, pass_no, k + 1)

\* A cleanup that removes nothing
CleanupNothing(history, t) == history

\* _cleanup_old_alerts
CleanupOldAlerts(history, t) ==
    SelectSeq(history, LAMBDA alert : alert.timestamp > t - AlertRetentionHours)

PoolFrame == UNCHANGED <<pvars, gvars, cvars, tvars>>

\* A loop that iterates over an empty list: _monitor_pools awaits nothing,
\* so start_monitoring never gives the event loop control again
Spinning == -1

\* A pass begins: the for loop takes the first pool of the list and awaits
\* its metrics.  removed_now moves to removed_before.
BeginPass(ps, log) ==
    [index |-> IF ps = <<>> THEN Spinning ELSE 1,
     pool  |-> IF ps = <<>> THEN NoPool ELSE ps[1],
     log   |-> [polled |-> IF ps = <<>> THEN <<>> ELSE <<ps[1]>>,
                removed_now |-> {},
                removed_before |-> log.removed_before \cup log.removed_now]]

\* start_monitoring, called while no loop is running: the flag is set and
\* the first pass begins
StartMonitoring ==
    /\ pool_index = 0
    /\ ~monitoring
    /\ monitoring' = TRUE
    /\ pool_index' = BeginPass(pools, pass_log).index
    /\ fetching' = BeginPass(pools, pass_log).pool
    /\ pass_log' = BeginPass(pools, pass_log).log
    /\ UNCHANGED <<pools, monitored_pools, alert_history, passes, created,
                   failed_pools, pool_now>>
    /\ PoolFrame

\* stop_monitoring
StopMonitoring ==
    /\ monitoring
    /\ pool_index # Spinning
    /\ monitoring' = FALSE
    /\ UNCHANGED <<pools, monitored_pools, alert_history, pool_index, fetching,
                   pass_log, passes, created, failed_pools, pool_now>>
    /\ PoolFrame

\* One iteration of the for loop of _monitor_pools: the metrics of the pool
\* arrive and are analysed; an exception is logged.  The list iterator then
\* takes the pool at the next position of the list as it is now, and its
\* fetch is awaited; after the last pool the pass ends with
\* _cleanup_old_alerts and start_monitoring tests is_active.
MonitorPool(outcome) ==
    /\ pool_index >= 1
    /\ passes < MaxPasses
    /\ LET pool == fetching
           alerts == IF outcome = NoMetrics THEN <<>>
                     ELSE AnalyzePoolMetrics(pool, outcome, pool_now, passes + 1, 1)
           last == pool_index >= Len(pools)
           ended == [pass_log EXCEPT
                         !.polled = <<>>,
                         !.removed_now = {},
                         !.removed_before = @ \cup pass_log.removed_now]
       IN  /\ alert_history' = IF last
                               THEN CleanupOldAlerts(alert_history \o alerts, pool_now)
                               ELSE alert_history \o alerts
           /\ created' = created + Len(alerts)
           /\ monitored_pools' = IF outcome # NoMetrics /\ outcome.raise_at = 0
                                 THEN monitored_pools \cup {pool}
                                 ELSE monitored_pools
           /\ failed_pools' = IF outcome # NoMetrics /\ outcome.raise_at # 0
                              THEN failed_pools \cup {pool}
                              ELSE failed_pools \ {pool}
           /\ passes' = IF last THEN passes + 1 ELSE passes
           /\ pool_index' = IF ~last THEN pool_index + 1
                            ELSE IF monitoring THEN BeginPass(pools, pass_log).index
                            ELSE 0
           /\ fetching' = IF ~last THEN pools[pool_index + 1]
                          ELSE IF monitoring THEN BeginPass(pools, pass_log).pool
                          ELSE NoPool
           /\ pass_log' = IF ~last
                          THEN [pass_log EXCEPT
                                    !.polled = Append(@, pools[pool_index + 1])]
                          ELSE IF monitoring THEN BeginPass(pools, pass_log).log
                          ELSE ended
    /\ UNCHANGED <<pools, monitoring, pool_now>>
    /\ PoolFrame

\* list.remove(x): the first occurrence of x is taken out
RemoveFirst(ps, x) ==
    IF \E k \in DOMAIN ps : ps[k] = x
    THEN RemoveAt(ps, CHOOSE k \in DOMAIN ps :
                          ps[k] = x /\ \A j \in 1..(k - 1) : ps[j] # x)
    ELSE ps

\* add_pool_to_monitor: the address is appended to the configured list
\* unless metrics of the pool have been recorded
AddPool(pool) ==
    /\ pool_index # Spinning
    /\ Len(pools) < MaxPools
    /\ pools' = IF pool \notin monitored_pools THEN Append(pools, pool) ELSE pools
    /\ pass_log' = [pass_log EXCEPT !.removed_now = @ \ {pool},
                                    !.removed_before = @ \ {pool}]
    /\ UNCHANGED <<monitored_pools, alert_history, monitoring, pool_index,
                   fetching, passes, created, failed_pools, pool_now>>
    /\ PoolFrame

\* remove_pool_from_monitor: if metrics of the pool have been recorded they
\* are deleted and the first occurrence of the address leaves the list
\* (list.remove raises ValueError when there is none); otherwise nothing is
\* done.  The call that returns is entered in pass_log.
RemovePool(pool) ==
    /\ pool_index # Spinning
    /\ pools' = IF pool \in monitored_pools THEN RemoveFirst(pools, pool) ELSE pools
    /\ monitored_pools' = monitored_pools \ {pool}
    /\ pass_log' =
           IF pool \in monitored_pools /\ \A k \in DOMAIN pools : pools[k] # pool
           THEN pass_log
           ELSE IF pool_index = 0
                THEN [pass_log EXCEPT !.removed_before = @ \cup {pool}]
                ELSE [pass_log EXCEPT !.removed_now = @ \cup {pool}]
    /\ UNCHANGED <<alert_history, monitoring, pool_index, fetching, passes,
                   created, failed_pools, pool_now>>
    /\ PoolFrame

\* The clock of the pool monitor advances
PoolTick ==
    /\ pool_now + PoolTickStep <= PoolMaxTime
    /\ pool_now' = pool_now + PoolTickStep
    /\ UNCHANGED <<pools, monitored_pools, alert_history, monitoring, pool_index,
                   fetching, pass_log, passes, created, failed_pools>>
    /\ PoolFrame

NextPoolMonitor ==
    \/ StartMonitoring
    \/ StopMonitoring
    \/ \E outcome \in FetchOutcomes : MonitorPool(outcome)
    \/ PoolTick

SpecPoolMonitor == InitComponents /\ [][NextPoolMonitor]_vars

\* C24: two alerts that different checks emitted for the same pool are never
\* less than the alert cooldown apart.
C24_AlertsSpacedByCooldown ==
    \A i, j \in DOMAIN alert_history :
        (/\ i < j
         /\ alert_history[i].pool_address = alert_history[j].pool_address
         /\ alert_history[i].pass_no # alert_history[j].pass_no)
        => (alert_history[j].timestamp - alert_history[i].timestamp) * SecondsPerHour
               >= alert_cooldown

\* The one alert a check may emit: the floor first, otherwise the drop,
\* otherwise the surge
AlertDue(metrics) ==
    IF metrics.liquidity < min_liquidity THEN "low_liquidity"
    ELSE IF metrics.liquidity_change_24h < -liquidity_drop_threshold THEN "liquidity_drop"
    ELSE "liquidity_surge"

\* C25: a single check emits at most one alert even if several conditions
\* hold, the floor alert first, otherwise the drop alert, otherwise the surge
\* alert.
C25_AtMostOneAlertPerCheck ==
    [][\A metrics \in PoolMetrics :
           MonitorPool(metrics)
           => /\ created' <= created + 1
              /\ created' = created + 1
                 => alert_history'[Len(alert_history')].alert_type = AlertDue(metrics)]_vars

\* The alerts of a history that are younger than 24 hours at time t
YoungerThanRetention(history, t) ==
    {history[k] : k \in {m \in DOMAIN history :
                             t - history[m].timestamp < AlertRetentionHours}}

\* C28: when a _monitor_pools pass has completed, alert_history holds no
\* alert older than 24 hours, and no step removes an alert younger than 24
\* hours.
C28_AlertHistoryPruned ==
    [][/\ passes' = passes + 1
          => \A k \in DOMAIN alert_history' :
                 pool_now' - alert_history'[k].timestamp <= AlertRetentionHours
       /\ YoungerThanRetention(alert_history, pool_now)
              \subseteq {alert_history'[k] : k \in DOMAIN alert_history'}]_vars

\* A pass has completed, an alert has been pruned and an alert created
\* before the current hour is still there.
C28_Witness ==
    /\ passes >= 1
    /\ created > Len(alert_history)
    /\ \E k \in DOMAIN alert_history : alert_history[k].timestamp < pool_now

\* ======================================================================
\* The token monitor
\* (src/backend/python/liquidity_monitor.py, class LiquidityMonitor)
\* ======================================================================
Tokens == {"t1", "t2"}

\* What awaiting _get_current_liquidity can bring: a liquidity, None, or an
\* exception (the market data fetch is left open in the source)
Liquidities == {500, 2000, 3000}
NoLiquidity == -1
FetchRaises == -2
LiquidityOutcomes == Liquidities \cup {NoLiquidity, FetchRaises}

Abs(x) == IF x < 0 THEN -x ELSE x

\* the monitoring data add_token creates; liquidity_history, which nothing
\* reads, is left out
NewMonitoringData ==
    [threshold |-> min_liquidity_threshold, last_liquidity |-> 0,
     last_alert_time |-> DatetimeMin]

\* a _monitor_token task: created, awaiting the liquidity, sleeping
\* (sleeping = TRUE until check_interval has passed), or returned; raised
\* tells whether its latest iteration ended in the "except Exception" clause
NewTokenTask == [pc |-> "start", sleeping |-> FALSE, raised |-> FALSE]

\* A task that an exception has ended
TaskEnded == [pc |-> "done", sleeping |-> FALSE, raised |-> TRUE]

\* "except Exception as e": the error is logged and the task sleeps
\* check_interval before the next iteration
AfterException == [pc |-> "sleep", sleeping |-> TRUE, raised |-> TRUE]

\* _update_monitoring_data
UpdateMonitoringData(data, current_liquidity) ==
    [data EXCEPT !.last_liquidity = current_liquidity]

\* abs(change_ratio) >= self.liquidity_decrease_threshold, for last > 0
SignificantChange(current_liquidity, last_liquidity) ==
    100 * Abs(current_liquidity - last_liquidity)
        >= liquidity_decrease_percent * last_liquidity

LiquidityAlert(token, alert_type, t) ==
    [token_address |-> token, alert_type |-> alert_type, timestamp |-> t]

\* "(utcnow() - last_alert_time).total_seconds() < self.alert_cooldown"
InCooldown(data, t) == t - data.last_alert_time < alert_cooldown

\* _check_alerts: the alerts sent, none or one.  data is the monitoring data
\* as _update_monitoring_data left it.
CheckAlerts(token, data, current_liquidity, t) ==
    IF InCooldown(data, t) THEN <<>>
    ELSE IF current_liquidity < data.threshold
         THEN <<LiquidityAlert(token, "low_liquidity", t)>>
    ELSE IF data.last_liquidity > 0
            /\ SignificantChange(current_liquidity, data.last_liquidity)
         THEN <<LiquidityAlert(token,
                    IF current_liquidity < data.last_liquidity
                    THEN "liquidity_decrease" ELSE "liquidity_increase", t)>>
    ELSE <<>>

\* A check that stamps the data whether or not it sent an alert
RecordCheckTime(data, alerts, t) == [data EXCEPT !.last_alert_time = t]

\* "data['last_alert_time'] = datetime.utcnow()" follows each _send_alert
\* of _check_alerts and stands nowhere else
RecordAlertTime(data, alerts, t) ==
    IF alerts = <<>> THEN data ELSE [data EXCEPT !.last_alert_time = t]

TokenFrame == UNCHANGED <<pvars, gvars, cvars, mvars>>

\* initialize
TokenInitialize ==
    /\ ~token_initialized
    /\ token_initialized' = TRUE
    /\ UNCHANGED <<token_running, monitored_tokens, alert_tasks, token_now, sent>>
    /\ TokenFrame

\* close: nothing unless initialized; the monitor stops, every task in
\* alert_tasks is cancelled and alert_tasks is cleared; monitored_tokens
\* is left as it is
TokenClose ==
    /\ token_initialized
    /\ token_running' = FALSE
    /\ token_initialized' = FALSE
    /\ alert_tasks' = EmptyDict
    /\ UNCHANGED <<monitored_tokens, token_now, sent>>
    /\ TokenFrame

\* start: initialize() unless initialized, then self._is_running = True; it
\* creates no task
TokenStart ==
    /\ ~token_running
    /\ token_running' = TRUE
    /\ token_initialized' = TRUE
    /\ UNCHANGED <<monitored_tokens, alert_tasks, token_now, sent>>
    /\ TokenFrame

\* stop
TokenStop ==
    /\ token_running
    /\ token_running' = FALSE
    /\ UNCHANGED <<token_initialized, monitored_tokens, alert_tasks, token_now,
                   sent>>
    /\ TokenFrame

\* add_token of a token that is not monitored yet
AddToken(token) ==
    /\ token \notin DOMAIN monitored_tokens
    /\ monitored_tokens' = DictPut(monitored_tokens, token, NewMonitoringData)
    /\ alert_tasks' = DictPut(alert_tasks, token, NewTokenTask)
    /\ UNCHANGED <<token_running, token_initialized, token_now, sent>>
    /\ TokenFrame

\* remove_token of a monitored token: its task is cancelled
RemoveToken(token) ==
    /\ token \in DOMAIN monitored_tokens
    /\ monitored_tokens' = DictDiscard(monitored_tokens, token)
    /\ alert_tasks' = DictDiscard(alert_tasks, token)
    /\ UNCHANGED <<token_running, token_initialized, token_now, sent>>
    /\ TokenFrame

\* _monitor_token tests its loop condition: when the task first runs and
\* whenever a sleep has ended
TokenLoop(token) ==
    /\ token \in DOMAIN alert_tasks
    /\ \/ alert_tasks[token].pc = "start"
       \/ alert_tasks[token].pc = "sleep" /\ ~alert_tasks[token].sleeping
    /\ alert_tasks' = [alert_tasks EXCEPT ![token].pc =
                           IF token_running THEN "poll" ELSE "done"]
    /\ UNCHANGED <<token_running, token_initialized, monitored_tokens, token_now,
                   sent>>
    /\ TokenFrame

\* The body of the loop of _monitor_token from the return of
\* _get_current_liquidity to the sleep: the data are updated and the alerts
\* checked; with None nothing is done; an exception is logged.  The task
\* then sleeps check_interval in every case.
TokenPoll(token, outcome) ==
    /\ token \in DOMAIN alert_tasks
    /\ alert_tasks[token].pc = "poll"
    /\ IF outcome \in Liquidities
       THEN LET data == UpdateMonitoringData(monitored_tokens[token], outcome)
                alerts == CheckAlerts(token, data, outcome, token_now)
            IN  /\ sent' = alerts
                /\ monitored_tokens' = [monitored_tokens EXCEPT ![token] =
                       RecordAlertTime(data, alerts, token_now)]
       ELSE /\ sent' = <<>>
            /\ UNCHANGED monitored_tokens
    /\ alert_tasks' = [alert_tasks EXCEPT ![token] =
           IF outcome = FetchRaises THEN AfterException
           ELSE [pc |-> "sleep", sleeping |-> TRUE, raised |-> FALSE]]
    /\ UNCHANGED <<token_running, token_initialized, token_now>>
    /\ TokenFrame

\* check_interval passes: every sleep that was going on has ended
TokenTick ==
    /\ token_now + check_interval <= TokenMaxTime
    /\ token_now' = token_now + check_interval
    /\ alert_tasks' = [t \in DOMAIN alert_tasks |->
                          [alert_tasks[t] EXCEPT !.sleeping = FALSE]]
    /\ UNCHANGED <<token_running, token_initialized, monitored_tokens, sent>>
    /\ TokenFrame

NextTokenMonitor ==
    \/ TokenInitialize
    \/ TokenClose
    \/ TokenStart
    \/ TokenStop
    \/ \E token \in Tokens : AddToken(token)
    \/ \E token \in Tokens : RemoveToken(token)
    \/ \E token \in Tokens : TokenLoop(token)
    \/ \E token \in Tokens, outcome \in LiquidityOutcomes : TokenPoll(token, outcome)
    \/ TokenTick

SpecTokenMonitor == InitComponents /\ [][NextTokenMonitor]_vars

\* C26: a poll that observes a liquidity lower than the previous poll's by
\* at least the relative threshold, with the floor not breached and the
\* cooldown elapsed, sends a liquidity_decrease alert; a rise by at least the
\* threshold sends a liquidity_increase alert.
C26_RelativeChangeAlerts ==
    [][\A token \in Tokens, current \in Liquidities :
           (/\ TokenPoll(token, current)
            /\ monitored_tokens[token].last_liquidity > 0
            /\ current >= monitored_tokens[token].threshold
            /\ token_now - monitored_tokens[token].last_alert_time >= alert_cooldown
            /\ SignificantChange(current, monitored_tokens[token].last_liquidity))
           => sent' = <<LiquidityAlert(token,
                           IF current < monitored_tokens[token].last_liquidity
                           THEN "liquidity_decrease" ELSE "liquidity_increase",
                           token_now)>>]_vars

\* ------------------------------------------- both monitors, with failures
\* Metrics whose analysis runs through, and metrics whose analysis raises
\* after its first alert
SoundMetrics ==
    [kind |-> "metrics", liquidity |-> 20, liquidity_change_24h |-> 0, raise_at |-> 0]
FailingMetrics ==
    [kind |-> "metrics", liquidity |-> 5, liquidity_change_24h |-> -20, raise_at |-> 2]

NextMonitors ==
    \/ StartMonitoring
    \/ \E outcome \in {SoundMetrics, FailingMetrics} : MonitorPool(outcome)
    \/ TokenStart
    \/ \E token \in Tokens : AddToken(token)
    \/ \E token \in Tokens : TokenLoop(token)
    \/ \E token \in Tokens, outcome \in {2000, FetchRaises} : TokenPoll(token, outcome)
    \/ TokenTick

SpecMonitors == InitComponents /\ [][NextMonitors]_vars

\* C27: an exception raised while one entity is polled or analysed is
\* caught.  In the pool monitor the pass goes on with the next pool, or ends
\* and the loop starts the next pass; in the token monitor the task of the
\* token sleeps and the tasks of the other tokens are untouched; neither
\* monitor stops; and a token task whose sleep has ended polls again.
C27_PollFailureIsContained ==
    [][/\ \A outcome \in PoolMetrics :
              (outcome.raise_at # 0 /\ MonitorPool(outcome))
              => /\ monitoring' = monitoring
                 /\ pool_index < Len(pools) => pool_index' = pool_index + 1
                 /\ (pool_index = Len(pools) /\ monitoring)
                        => (pool_index' = 1 /\ passes' = passes + 1)
       /\ \A token \in Tokens :
              TokenPoll(token, FetchRaises)
              => /\ token_running' = token_running
                 /\ alert_tasks'[token].pc = "sleep"
                 /\ \A other \in (DOMAIN alert_tasks) \ {token} :
                        alert_tasks'[other] = alert_tasks[other]
       /\ \A token \in Tokens :
              (TokenLoop(token) /\ token_running /\ alert_tasks[token].raised)
              => alert_tasks'[token].pc = "poll"]_vars

\* The analysis of the first pool has raised and the pass awaits the second
\* pool; the task of a token polls again after an iteration that raised,
\* beside the task of another token.
C27_Witness ==
    /\ pool_index = 2
    /\ pools[1] \in failed_pools
    /\ \E token \in DOMAIN alert_tasks :
           /\ alert_tasks[token].raised
           /\ alert_tasks[token].pc = "poll"
           /\ \E other \in (DOMAIN alert_tasks) \ {token} :
                  alert_tasks[other].pc # "done"

\* ======================================================================
\* The result ledger of the pipeline under a clock with 12 hour steps
\* (src/python/transaction_pipeline.py, _cleanup_old_transactions)
\* ======================================================================

\* datetime.now() advances by half the retention window
LedgerTick ==
    /\ now + LedgerTickStep <= LedgerMaxTime
    /\ now' = now + LedgerTickStep
    /\ UNCHANGED <<requests, pending_transactions, processing_transactions,
                   completed_transactions, tasks, is_active, max_concurrent,
                   submits, rejected>>
    /\ UNCHANGED <<gvars, xvars>>

NextLedger ==
    \/ \E s \in Signatures : SubmitNew(1, s, "w1")
    \/ StartProcessing
    \/ StopProcessing
    \/ ProcessTransactions
    \/ \E i \in 1..MaxSubmit : Step(i)
    \/ LedgerTick

SpecLedger == Init /\ [][NextLedger]_vars

\* The step brings an execution to its end
TerminalTransition ==
    \E i \in DOMAIN tasks : tasks[i].pc # "done" /\ tasks'[i].pc = "done"

\* The results of a ledger that are younger than 24 hours at time t
YoungResults(ledger, t) ==
    {ledger[k] : k \in {m \in DOMAIN ledger : t - ledger[m].timestamp < RetentionHours}}

\* C29 as stated: once a request has reached a terminal state the ledger
\* holds no result older than 24 hours, and no step removes a result younger
\* than 24 hours.
C29_PrunedAtTerminalTransition ==
    [][/\ TerminalTransition
          => \A k \in DOMAIN completed_transactions' :
                 now' - completed_transactions'[k].timestamp <= RetentionHours
       /\ YoungResults(completed_transactions, now)
              \subseteq {completed_transactions'[k] : k \in DOMAIN completed_transactions'}]_vars

\* C29, amended: every dispatch pass leaves no result in the ledger that is
\* 24 hours old or older; a terminal transition prunes nothing; and no step
\* removes a result younger than 24 hours.
C29_PrunedOnDispatchPass ==
    [][/\ ProcessTransactions
          => \A k \in DOMAIN completed_transactions' :
                 now' - completed_transactions'[k].timestamp < RetentionHours
       /\ TerminalTransition
          => IsPrefix(completed_transactions, completed_transactions')
       /\ YoungResults(completed_transactions, now)
              \subseteq {completed_transactions'[k] : k \in DOMAIN completed_transactions'}]_vars

\* The result of an execution that ended has been pruned while a result that
\* is 12 hours old is still in the ledger.
C29_Witness ==
    /\ \E i \in DOMAIN tasks :
           /\ tasks[i].pc = "done"
           /\ tasks[i].results > 0
           /\ ~InCompleted(tasks[i].id)
    /\ \E k \in DOMAIN completed_transactions :
           now - completed_transactions[k].timestamp = LedgerTickStep

\* ======================================================================
\* Cancelling requests whose signatures are all different
\* (src/python/transaction_pipeline.py, cancel_transaction)
\* ======================================================================

\* The k-th request submitted carries the signature k, so that no two
\* requests ever share a key of processing_transactions.
NextCancel ==
    \/ \E s \in {Len(requests) + 1} : SubmitNew(1, s, "w1")
    \/ StartProcessing
    \/ ProcessTransactions
    \/ \E i \in 1..MaxSubmit : Step(i)
    \/ \E sig \in 1..MaxSubmit : CancelTransaction(sig)

SpecCancel == Init /\ [][NextCancel]_vars

\* C31: a cancel of a request that is in flight leaves the request in its
\* concurrency slot, and the executions that have been started and have not
\* finished never number more than max_concurrent.
C31_CancelKeepsSlot ==
    [][/\ \A sig \in 1..MaxSubmit :
              (/\ CancelTransaction(sig)
               /\ PendingMatches(sig) = {}
               /\ sig \in DOMAIN processing_transactions
               /\ Running(processing_transactions[sig]))
              => \E key \in DOMAIN processing_transactions' :
                     processing_transactions'[key] = processing_transactions[sig]
       /\ Cardinality({i \in DOMAIN tasks' : tasks'[i].pc # "done"}) <= max_concurrent]_vars


\* ------------------------------------------- the dispatcher on the event loop
\* start_processing, lines 90-95: the coroutine gives the event loop control
\* only at an await that suspends. `await self._process_transactions()` runs
\* a coroutine that contains no await (sort, the dispatch while loop with
\* asyncio.create_task, the cleanup), so it returns without suspending; the
\* one suspending await of the loop is asyncio.sleep(1) in the except clause,
\* and no statement of _process_transactions raises in a constructed pipeline.
IterationSuspends == FALSE

\* Coroutines other than the dispatcher (submit_transaction,
\* cancel_transaction, stop_processing, the tasks of _execute_transaction) run
\* only while the dispatcher does not hold the event loop
OthersMayRun == ~is_active \/ IterationSuspends

\* The pipeline as the single-threaded event loop runs it. stop_processing
\* and the steps of _execute_transaction need OthersMayRun while the loop is
\* active, so they are never scheduled and are no disjunct here.
NextEventLoop ==
    \/ \E p \in Priorities, s \in Signatures, w \in WalletNames :
           OthersMayRun /\ SubmitNew(p, s, w)
    \/ \E sig \in Signatures : OthersMayRun /\ CancelTransaction(sig)
    \/ StartProcessing
    \/ ProcessTransactions
    \/ Tick

\* The event loop runs every ready coroutine that is given the chance; the
\* dispatcher goes on to its next iteration
FairEventLoop ==
    /\ Init
    /\ [][NextEventLoop]_vars
    /\ WF_vars(ProcessTransactions)
    /\ \A i \in 1..MaxSubmit : WF_vars(OthersMayRun /\ Step(i))
    /\ WF_vars(OthersMayRun /\ StopProcessing)

\* C32: while the dispatcher loop is active every iteration reaches a
\* suspension point, so a task it started gets to run: every started
\* execution eventually leaves its first step
C32_StartedTasksGetToRun ==
    \A i \in 1..MaxSubmit :
        (i \in DOMAIN tasks) ~> (i \in DOMAIN tasks /\ tasks[i].pc # "build")


\* ------------------------------------------- permits and the retry delay
\* Callers between the return of semaphore.acquire and the end of their
\* attempt (the request has returned or raised)
Attempting == {c \in 1..NCallers : callers[c].pc \in {"spacing", "request"}}

\* C33: a caller waiting out the retry delay between two failed attempts
\* holds no permit: the permit of the failed attempt is back in the
\* semaphore before the delay begins, so the permits left and the attempts
\* under way always add up to calls_per_second.
C33_NoPermitDuringRetryDelay ==
    semaphore + Cardinality(Attempting) = calls_per_second

\* ------------------------------------------------- how a get / post ends
\* C36: a get / post call on an open session makes at least one attempt and
\* ends by returning a response or by raising, for every max_retries >= 0:
\* no call returns without a response.
C36_ReturnsResponseOrRaises ==
    callers[1].pc = "returned" =>
        /\ callers[1].attempts >= 1
        /\ callers[1].response # NoResponse


\* ------------------------------------------------ re-adding a cached hash
\* C34: add_transaction with a hash that is already in a full cache
\* replaces the value of that entry and evicts no other entry: the set of
\* cached hashes is the same before and after.
C34_ReaddKeepsCachedHashes ==
    [][\A data \in TransactionData :
           (/\ AddTransaction(data)
            /\ add_errors' = add_errors
            /\ Len(transaction_cache) = MaxCacheSize
            /\ data.hash \in CachedHashes(transaction_cache))
           => /\ CachedHashes(transaction_cache') = CachedHashes(transaction_cache)
              /\ Entry(transaction_cache', data.hash) =
                     NewTransaction(data, utcnow)]_vars

\* ------------------------------------------------- tasks and cache entries
\* C39: every hash in processing_tasks has an entry in transaction_cache, so
\* processing_tasks never holds more than max_cache_size entries.
C39_TasksAreCached ==
    /\ processing_tasks \subseteq CachedHashes(transaction_cache)
    /\ Cardinality(processing_tasks) <= MaxCacheSize


\* ------------------------------------------------- when last_alert_time moves
\* C35: a check that emits no alert leaves last_alert_time unchanged;
\* last_alert_time of a monitored token is changed only by a check of that
\* token that emits an alert, and then to the time of that check.
C35_AlertTimeFollowsAlerts ==
    [][\A token \in Tokens :
           /\ \A outcome \in LiquidityOutcomes :
                  (TokenPoll(token, outcome) /\ sent' = <<>>)
                  => monitored_tokens'[token].last_alert_time =
                         monitored_tokens[token].last_alert_time
           /\ (/\ token \in DOMAIN monitored_tokens
               /\ token \in DOMAIN monitored_tokens'
               /\ monitored_tokens'[token].last_alert_time #
                      monitored_tokens[token].last_alert_time)
              => /\ \E outcome \in Liquidities : TokenPoll(token, outcome)
                 /\ sent' # <<>>
                 /\ sent'[1].token_address = token
                 /\ monitored_tokens'[token].last_alert_time = token_now]_vars

\* The only monitored token alerted at an earlier time, and its latest
\* check, inside the cooldown, has sent nothing and left the time alone.
C35_Witness ==
    \E token \in Tokens :
        /\ DOMAIN monitored_tokens = {token}
        /\ token \in DOMAIN alert_tasks
        /\ alert_tasks[token].pc = "sleep" /\ alert_tasks[token].sleeping
        /\ sent = <<>>
        /\ monitored_tokens[token].last_alert_time >= 0
        /\ monitored_tokens[token].last_alert_time < token_now

\* ------------------------------------------------ tokens that are polled
\* C37: every token accepted by add_token is polled once per check_interval
\* as long as the monitor is running, whether it was added before or after
\* start() and also after stop() / start() or close() / start(): while the
\* monitor runs every monitored token has a task that has not returned;
\* and no token ever has a second task.
C37_MonitoredTokensHaveLiveTask ==
    /\ token_running =>
           \A token \in DOMAIN monitored_tokens :
               /\ token \in DOMAIN alert_tasks
               /\ alert_tasks[token].pc # "done"
    /\ DOMAIN alert_tasks \subseteq DOMAIN monitored_tokens


\* ------------------------------------------- the configured list of pools
\* The addresses callers pass to add_pool_to_monitor and
\* remove_pool_from_monitor: the configured pools and one more
PoolNames == {"p1", "p2", "p3"}

\* The pool monitor with pools added and removed while it runs; the fetches
\* bring no metrics or metrics that raise no alert
NextPoolSet ==
    \/ StartMonitoring
    \/ StopMonitoring
    \/ \E outcome \in {NoMetrics, SoundMetrics} : MonitorPool(outcome)
    \/ \E pool \in PoolNames : AddPool(pool)
    \/ \E pool \in PoolNames : RemovePool(pool)

SpecPoolSet == InitComponents /\ [][NextPoolSet]_vars

\* C38: after remove_pool_from_monitor(p) has returned, p is not polled in
\* any later pass, whether or not metrics of p had been recorded and however
\* often add_pool_to_monitor(p) had been called before; and no pool is
\* polled twice in one pass.
C38_RemovedPoolNotPolled ==
    /\ pool_index >= 1 => fetching \notin pass_log.removed_before
    /\ \A i, j \in DOMAIN pass_log.polled :
           i # j => pass_log.polled[i] # pass_log.polled[j]

====
